---- MODULE Spec2Model ----
(***************************************************************************)
(* The two LangChain tools of cellrepair-langchain:                        *)
(*   CellRepairAITool (cellrepair_langchain.py, the lenient constructor)   *)
(*   CellRepairTool   (cellrepair_langchain_tool.py, the strict one).      *)
(*                                                                         *)
(* A Python str is a sequence of tokens (words, punctuation, and white     *)
(* space as tokens of its own), so that f-string formatting, "+=",         *)
(* str.strip() and substring tests are computed and not assumed.  An       *)
(* Optional value is <<>> (None) or <<v>>.  A decoded JSON value is a      *)
(* record tagged with its Python type.                                     *)
(*                                                                         *)
(* Spec     the invocations (_run, _arun) of two constructed tools; a      *)
(*          call neither reads nor writes anything but self.api_key, so    *)
(*          `last` keeps one call at a time and the counters keep the run. *)
(* SpecCtor the constructor calls under a changing environment.            *)
(***************************************************************************)
EXTENDS Naturals, Sequences, FiniteSets, TLC

VARIABLES
    environ,      \* os.environ["CELLREPAIR_API_KEY"]: None or Some(str)
    lenientTool,  \* the CellRepairAITool instance: None or Some([api_key])
    strictTool,   \* the CellRepairTool instance: None or Some([api_key])
    ctorLenient,  \* history: the last CellRepairAITool(...) call
    ctorStrict,   \* history: the last CellRepairTool(...) call
    last,         \* history: the _run/_arun call that has just returned, its
                  \*   requests and result; None once the caller took the result
    invoked,      \* history: number of _run/_arun calls
    calls,        \* history: number of those made with a non-empty key
    sent          \* history: number of requests handed to requests.post

vars == <<environ, lenientTool, strictTool, ctorLenient, ctorStrict,
          last, invoked, calls, sent>>

---------------------------------------------------------------------------
(* Python values *)

None == <<>>
Some(v) == <<v>>

EmptyStr == <<>>

\* bool(s) of a str or a list: non-empty
Truthy(s) == Len(s) > 0

\* a or b, for a an Optional[str]: None and "" are falsy
PyOr(a, b) == IF a # None /\ Truthy(a[1]) THEN a[1] ELSE b

WhiteSpace == {" ", "  ", "\n", "\t"}

StartsWith(s, p) == Len(p) <= Len(s) /\ SubSeq(s, 1, Len(p)) = p

\* p in s
Contains(s, p) ==
    \E i \in 1..(Len(s) + 1) :
        i + Len(p) - 1 <= Len(s) /\ SubSeq(s, i, i + Len(p) - 1) = p

Digit(d) == <<"0", "1", "2", "3", "4", "5", "6", "7", "8", "9">>[d + 1]

RECURSIVE IntToStr(_)
\* str(n) of a non-negative int
IntToStr(n) == IF n < 10 THEN <<Digit(n)>>
               ELSE IntToStr(n \div 10) \o <<Digit(n % 10)>>

RECURSIVE LStrip(_)
LStrip(s) == IF s # <<>> /\ Head(s) \in WhiteSpace THEN LStrip(Tail(s)) ELSE s

RECURSIVE RStrip(_)
RStrip(s) == IF s # <<>> /\ s[Len(s)] \in WhiteSpace
             THEN RStrip(SubSeq(s, 1, Len(s) - 1)) ELSE s

\* s.strip()
Strip(s) == LStrip(RStrip(s))

---------------------------------------------------------------------------
(* Construction *)

\* os.getenv(name, default) with the variable's value given as an Optional
os_getenv(value, default) == IF value = None THEN default ELSE value[1]

\* CellRepairAITool.__init__: never raises; warns when the key is empty
CellRepairAITool_init(api_key, env) ==
    LET k == PyOr(api_key, os_getenv(env, EmptyStr))
    IN  [raised |-> FALSE, api_key |-> k, warned |-> ~Truthy(k)]

\* CellRepairTool.__init__: ValueError when the key is empty
CellRepairTool_init(api_key, env) ==
    LET k == IF api_key = None THEN os_getenv(env, EmptyStr) ELSE api_key[1]
    IN  [raised |-> ~Truthy(k), api_key |-> k, warned |-> FALSE]

\* the keys a caller passes and the values the environment holds
ArgKey == <<"sk-arg">>
EnvKey == <<"sk-env">>
ArgValues == {None, Some(EmptyStr), Some(ArgKey)}
EnvValues == {None, Some(EmptyStr), Some(EnvKey)}

---------------------------------------------------------------------------
(* Decoded JSON values, tagged with their Python type *)

Str(s) == [t |-> "str", s |-> s]
Int(n) == [t |-> "int", n |-> n]
\* a float given in whole percents: Float(87) is 0.87
Float(pct) == [t |-> "float", pct |-> pct]
Bool(b) == [t |-> "bool", b |-> b]
Null == [t |-> "null"]
List(items) == [t |-> "list", items |-> items]
Dict(d) == [t |-> "dict", d |-> d]
EmptyDict == Dict(<<>>)
EmptyList == List(<<>>)

\* type(v).__name__
TypeName(v) == CASE v.t = "null" -> "NoneType"
                 [] OTHER -> v.t

\* bool(v)
IsTrue(v) == CASE v.t = "str" -> Truthy(v.s)
               [] v.t = "int" -> v.n # 0
               [] v.t = "float" -> v.pct # 0
               [] v.t = "bool" -> v.b
               [] v.t = "null" -> FALSE
               [] v.t = "list" -> Truthy(v.items)
               [] v.t = "dict" -> DOMAIN v.d # {}

\* str(v), as an f-string's {v} renders it
Format(v) == CASE v.t = "str" -> v.s
               [] v.t = "int" -> IntToStr(v.n)
               [] v.t = "bool" -> IF v.b THEN <<"True">> ELSE <<"False">>
               [] v.t = "null" -> <<"None">>

---------------------------------------------------------------------------
(* Control flow: an evaluation returns a value or raises an exception *)

Return(v) == [k |-> "return", cls |-> "", v |-> v]
Raise(cls, msg) == [k |-> "raise", cls |-> cls, v |-> msg]

\* issubclass(cls, requests.exceptions.Timeout)
IsTimeout(cls) == cls \in {"Timeout", "ReadTimeout", "ConnectTimeout"}

\* issubclass(cls, Exception)
IsException(cls) ==
    cls \in {"Timeout", "ReadTimeout", "ConnectTimeout", "ConnectionError",
             "SSLError", "JSONDecodeError", "KeyError", "TypeError",
             "AttributeError", "ValueError"}

\* v[key]
GetItem(v, key) ==
    CASE v.t = "dict" ->
            IF key \in DOMAIN v.d THEN Return(v.d[key])
            ELSE Raise("KeyError", <<"'", key, "'">>)
      [] v.t = "list" ->
            Raise("TypeError", <<"list", " ", "indices", " ", "must", " ", "be",
                                 " ", "integers", " ", "or", " ", "slices", ",",
                                 " ", "not", " ", "str">>)
      [] v.t = "str" ->
            Raise("TypeError", <<"string", " ", "indices", " ", "must", " ",
                                 "be", " ", "integers">>)
      [] OTHER ->
            Raise("TypeError", <<"'", TypeName(v), "'", " ", "object", " ", "is",
                                 " ", "not", " ", "subscriptable">>)

\* v.get(key, default)
DictGet(v, key, default) ==
    IF v.t = "dict"
    THEN Return(IF key \in DOMAIN v.d THEN v.d[key] ELSE default)
    ELSE Raise("AttributeError", <<"'", TypeName(v), "'", " ", "object", " ",
                                   "has", " ", "no", " ", "attribute", " ", "'",
                                   "get", "'">>)

\* f"{v*100:.<decimals>f}" for decimals 0 or 1
Percent(v, decimals) ==
    LET frac == IF decimals = 0 THEN <<>> ELSE <<".", "0">>
    IN  CASE v.t = "float" -> Return(IntToStr(v.pct) \o frac)
          [] v.t = "int" -> Return(IntToStr(v.n * 100) \o frac)
          [] v.t = "str" ->
                Raise("ValueError", <<"Unknown", " ", "format", " ", "code", " ",
                                      "'", "f", "'", " ", "for", " ", "object",
                                      " ", "of", " ", "type", " ", "'", "str", "'">>)
          [] OTHER ->
                Raise("TypeError", <<"unsupported", " ", "operand", " ", "type(s)",
                                     " ", "for", " ", "*", ":", " ", "'",
                                     TypeName(v), "'", " ", "and", " ", "'", "int",
                                     "'">>)

\* response.json(): the body is None when it is not JSON
response_json(body) ==
    IF body = None
    THEN Raise("JSONDecodeError", <<"Expecting", " ", "value", ":", " ", "line",
                                    " ", "1", " ", "column", " ", "1", " ",
                                    "(char", " ", "0)">>)
    ELSE Return(body[1])

RECURSIVE NumberedLines_FromZero(_, _)
\* mutant: enumerate(qs) without the start of 1
NumberedLines_FromZero(qs, i) ==
    IF qs = <<>> THEN <<>>
    ELSE <<"  ">> \o IntToStr(i - 1) \o <<".", " ">> \o Format(Head(qs))
         \o <<"\n">> \o NumberedLines_FromZero(Tail(qs), i + 1)

RECURSIVE NumberedLines(_, _)
\* for i, q in enumerate(qs, i): result += f"  {i}. {q}\n"
NumberedLines(qs, i) ==
    IF qs = <<>> THEN <<>>
    ELSE <<"  ">> \o IntToStr(i) \o <<".", " ">> \o Format(Head(qs)) \o <<"\n">>
         \o NumberedLines(Tail(qs), i + 1)

---------------------------------------------------------------------------
(* The request and the error strings *)

RequestTimeout == 30

ApiUrl == <<"https://cellrepair.ai/api/v1/collaborate">>

\* where CellRepairAITool's messages say a key is obtained
KeyUrl == <<"https://cellrepair.ai/api/">>

\* where CellRepairTool's message says a key is obtained
KeyUrlUtm == <<"https://cellrepair.ai/api/?utm_source=langchain">>

\* requests.post(url, headers=..., json=..., timeout=30)
Request(url, api_key, query, context) ==
    [url |-> url,
     headers |-> [Authorization |-> <<"Bearer", " ">> \o api_key,
                  ContentType |-> <<"application/json">>],
     json |-> [system |-> <<"LangChain">>, query |-> query, context |-> context],
     timeout |-> RequestTimeout]

NoKeyMessage ==
    <<"Error:", " ", "No", " ", "API", " ", "key", ".", " ", "Get", " ", "free",
      " ", "key", " ", "at", " ">> \o KeyUrl
    \o <<" ", "(", "1000", " ", "calls/month", " ", "free", "!", ")">>

AIToolInvalidKeyMessage ==
    <<"Error:", " ", "Invalid", " ", "API", " ", "key", ".", " ", "Get", " ",
      "one", " ", "at", " ">> \o KeyUrl

AIToolStatusMessage(status) ==
    <<"Error:", " ", "API", " ", "returned", " ">> \o IntToStr(status)

AIToolTimeoutMessage ==
    <<"Error:", " ", "Request", " ", "timed", " ", "out", ".", " ", "Try", " ",
      "again", ".">>

ToolInvalidKeyMessage ==
    <<"Error:", " ", "Invalid", " ", "API", " ", "key", ".", " ", "Get", " ", "a",
      " ", "free", " ", "key", " ", "at", " ">> \o KeyUrlUtm

ToolStatusMessage(status) ==
    <<"Error:", " ", "API", " ", "returned", " ", "status", " ">>
    \o IntToStr(status)

ToolTimeoutMessage ==
    <<"Error:", " ", "Request", " ", "timed", " ", "out", ".", " ", "Please", " ",
      "try", " ", "again", ".">>

\* mutant: return str(e)
GenericMessage_Bare(msg) == msg

\* f"Error: {str(e)}"
GenericMessage(msg) == <<"Error:", " ">> \o msg

---------------------------------------------------------------------------
(* CellRepairAITool._run, cellrepair_langchain.py *)

AIToolHeader ==
    <<"CellRepair.AI", " ", "Network", " ", "Response", ":", "\n", "\n">>

AIToolNextHeader ==
    <<"\n", "You'll", " ", "probably", " ", "ask", " ", "next", ":", "\n">>

\* the line's leading emoji is written (sparkles)
AIToolLearnLine ==
    <<"\n", "(sparkles)", " ", "Both", " ", "LangChain", " ", "and", " ",
      "CellRepair.AI", " ", "got", " ", "smarter", " ", "from", " ", "this", "!",
      "\n">>

\* lines 95-117: format the decoded body; the first failing step raises
AIToolFormat(data) ==
    LET insight == GetItem(data, "insight")
        rec == GetItem(insight.v, "recommendation")
        conf == GetItem(insight.v, "confidence")
        pct == Percent(conf.v, 0)
        agents == GetItem(data, "agents_consulted")
        hasPred == "predictive_intelligence" \in DOMAIN data.d
        next_q == DictGet(data.d["predictive_intelligence"],
                          "you_will_probably_ask_next", EmptyList)
        hasLearn == "learning_exchange" \in DOMAIN data.d
        improved == DictGet(data.d["learning_exchange"],
                            "both_systems_improved", Null)
        head == AIToolHeader \o Format(rec.v) \o <<"\n", "\n">>
                \o <<"Confidence", ":", " ">> \o pct.v \o <<"%", "\n">>
                \o <<"Agents", " ", "consulted", ":", " ">> \o Format(agents.v)
                \o <<"\n">>
        predPart == IF hasPred /\ IsTrue(next_q.v)
                    THEN AIToolNextHeader \o NumberedLines(next_q.v.items, 1)
                    ELSE <<>>
        learnPart == IF hasLearn /\ IsTrue(improved.v)
                     THEN AIToolLearnLine ELSE <<>>
    IN  IF insight.k = "raise" THEN insight
        ELSE IF rec.k = "raise" THEN rec
        ELSE IF conf.k = "raise" THEN conf
        ELSE IF pct.k = "raise" THEN pct
        ELSE IF agents.k = "raise" THEN agents
        ELSE IF hasPred /\ next_q.k = "raise" THEN next_q
        ELSE IF hasLearn /\ improved.k = "raise" THEN improved
        ELSE Return(head \o predPart \o learnPart)

\* lines 75-117: the try block, given what requests.post does
AIToolTry(net) ==
    IF net.k = "raise" THEN Raise(net.cls, net.v)
    ELSE IF net.status = 401 THEN Return(AIToolInvalidKeyMessage)
    ELSE IF net.status # 200 THEN Return(AIToolStatusMessage(net.status))
    ELSE LET data == response_json(net.body)
         IN  IF data.k = "raise" THEN data ELSE AIToolFormat(data.v)

\* mutant: only the Timeout handler, no "except Exception"
AIToolExcept_TimeoutOnly(r) ==
    IF r.k = "return" THEN r
    ELSE IF IsTimeout(r.cls) THEN Return(AIToolTimeoutMessage)
    ELSE r

\* lines 119-122: the except clauses
AIToolExcept(r) ==
    IF r.k = "return" THEN r
    ELSE IF IsTimeout(r.cls) THEN Return(AIToolTimeoutMessage)
    ELSE IF IsException(r.cls) THEN Return(GenericMessage(r.v))
    ELSE r

\* mutant: one retry when the first attempt did not give a 200
CellRepairAITool_run_Retry(self, query, net) ==
    LET req == Request(ApiUrl, self.api_key, query, EmptyDict)
    IN  IF ~Truthy(self.api_key)
        THEN [requests |-> <<>>, result |-> Return(NoKeyMessage)]
        ELSE [requests |-> IF net.k = "response" /\ net.status = 200
                           THEN <<req>> ELSE <<req, req>>,
              result |-> AIToolExcept(AIToolTry(net))]

\* lines 64-122: the requests issued and the outcome of the call
CellRepairAITool_run(self, query, net) ==
    IF ~Truthy(self.api_key)
    THEN [requests |-> <<>>, result |-> Return(NoKeyMessage)]
    ELSE [requests |-> <<Request(ApiUrl, self.api_key, query, EmptyDict)>>,
          result |-> AIToolExcept(AIToolTry(net))]

\* mutant: BaseTool's _arun left unimplemented
CellRepairAITool_arun_Unimplemented(self, query, net) ==
    [requests |-> <<>>,
     result |-> Raise("NotImplementedError",
                      <<"Tool", " ", "does", " ", "not", " ", "support", " ",
                        "async">>)]

\* lines 124-132: return self._run(query, run_manager)
CellRepairAITool_arun(self, query, net) == CellRepairAITool_run(self, query, net)

---------------------------------------------------------------------------
(* CellRepairTool._run, cellrepair_langchain_tool.py *)

ToolNextHeader ==
    <<"\n", "\n", "Predictive", " ", "Intelligence", " ", "(", "3", " ", "steps",
      " ", "ahead", ")", ":", "\n">>

\* lines 122-147: format the decoded body
ToolFormat(data) ==
    LET insight == DictGet(data, "insight", EmptyDict)
        recommendation ==
            DictGet(insight.v, "recommendation",
                    Str(<<"No", " ", "recommendation", " ", "available">>))
        confidence == DictGet(insight.v, "confidence", Int(0))
        agents == DictGet(data, "agents_consulted", Int(0))
        predictive == DictGet(data, "predictive_intelligence", EmptyDict)
        next_questions ==
            DictGet(predictive.v, "you_will_probably_ask_next", EmptyList)
        pct == Percent(confidence.v, 1)
        impl == DictGet(insight.v, "implementation_time", Str(<<"Unknown">>))
        roi == DictGet(insight.v, "roi_estimate", Str(<<"Unknown">>))
        result ==
            <<"CellRepair.AI", " ", "Analysis", ":", "\n", "\n">>
            \o Format(recommendation.v) \o <<"\n", "\n">>
            \o <<"Confidence", ":", " ">> \o pct.v \o <<"%", "\n">>
            \o <<"Agents", " ", "Consulted", ":", " ">> \o Format(agents.v)
            \o <<"\n">>
            \o <<"Implementation", " ", "Time", ":", " ">> \o Format(impl.v)
            \o <<"\n">>
            \o <<"ROI", " ", "Estimate", ":", " ">> \o Format(roi.v) \o <<"\n">>
        predPart == IF IsTrue(next_questions.v)
                    THEN ToolNextHeader
                         \o NumberedLines(next_questions.v.items, 1)
                    ELSE <<>>
    IN  IF insight.k = "raise" THEN insight
        ELSE IF recommendation.k = "raise" THEN recommendation
        ELSE IF predictive.k = "raise" THEN predictive
        ELSE IF next_questions.k = "raise" THEN next_questions
        ELSE IF pct.k = "raise" THEN pct
        ELSE Return(Strip(result \o predPart))

\* context or {}
ContextOrEmpty(context) ==
    IF context # None /\ IsTrue(context[1]) THEN context[1] ELSE EmptyDict

\* mutant: the 401 test placed after the non-200 test
ToolTry_StatusFirst(net) ==
    IF net.k = "raise" THEN Raise(net.cls, net.v)
    ELSE IF net.status # 200 THEN Return(ToolStatusMessage(net.status))
    ELSE IF net.status = 401 THEN Return(ToolInvalidKeyMessage)
    ELSE LET data == response_json(net.body)
         IN  IF data.k = "raise" THEN data ELSE ToolFormat(data.v)

\* lines 94-147: the try block, given what requests.post does
ToolTry(net) ==
    IF net.k = "raise" THEN Raise(net.cls, net.v)
    ELSE IF net.status = 401 THEN Return(ToolInvalidKeyMessage)
    ELSE IF net.status # 200 THEN Return(ToolStatusMessage(net.status))
    ELSE LET data == response_json(net.body)
         IN  IF data.k = "raise" THEN data ELSE ToolFormat(data.v)

\* lines 149-152: the except clauses
ToolExcept(r) ==
    IF r.k = "return" THEN r
    ELSE IF IsTimeout(r.cls) THEN Return(ToolTimeoutMessage)
    ELSE IF IsException(r.cls) THEN Return(GenericMessage(r.v))
    ELSE r

\* lines 84-152: the requests issued and the outcome of the call
CellRepairTool_run(self, query, context, net) ==
    [requests |-> <<Request(ApiUrl, self.api_key, query,
                            ContextOrEmpty(context))>>,
     result |-> ToolExcept(ToolTry(net))]

---------------------------------------------------------------------------
(* What the caller passes and what the transport answers *)

MaxCalls == 2
MaxQuestions == 2

EmptyQuery == EmptyStr
SomeQuery == <<"How", " ", "to", " ", "scale", "?">>
Queries == {EmptyQuery, SomeQuery}

Contexts == {None, Some(Dict([stack |-> Str(<<"python">>)]))}

Recommendation == <<"Use", " ", "caching">>

\* the second question ends in white space
Question1 == <<"Why", "?">>
Question2 == <<"How", " ", "fast", "?", " ">>
QuestionPool == {Str(Question1), Str(Question2)}
QuestionLists == UNION {[1..n -> QuestionPool] : n \in 0..MaxQuestions}

InsightField ==
    [recommendation |-> Str(Recommendation),
     confidence |-> Float(87),
     implementation_time |-> Str(<<"2", " ", "weeks">>),
     roi_estimate |-> Str(<<"High">>)]

\* a dict holding `must` and any of `may`, each key with its value in `field`
Dicts(field, must, may) ==
    {Dict([k \in must \cup K |-> field[k]]) : K \in SUBSET may}

Insights ==
    Dicts(InsightField, {"recommendation"},
          {"confidence", "implementation_time", "roi_estimate"})

Predictives ==
    {EmptyDict} \cup {Dict([you_will_probably_ask_next |-> List(qs)]) :
                        qs \in QuestionLists}

Learnings == {Dict([both_systems_improved |-> Bool(b)]) : b \in BOOLEAN}

\* the 200 bodies that hold insight.recommendation, every other field
\* present or absent
GoodBodies ==
    UNION {Dicts([insight |-> i, agents_consulted |-> Int(42),
                  predictive_intelligence |-> p, learning_exchange |-> l],
                 {"insight"},
                 {"agents_consulted", "predictive_intelligence",
                  "learning_exchange"}) :
             i \in Insights, p \in Predictives, l \in Learnings}

FullInsight == Dict(InsightField)

FullBody ==
    Dict([insight |-> FullInsight, agents_consulted |-> Int(42),
          predictive_intelligence |->
              Dict([you_will_probably_ask_next |-> List(<<Str(Question1)>>)]),
          learning_exchange |-> Dict([both_systems_improved |-> Bool(TRUE)])])

\* 200 bodies with a field missing or of the wrong type
BadBodies ==
    {List(<<>>), Str(<<"ok">>), EmptyDict,
     Dict([insight |-> Str(<<"n/a">>), agents_consulted |-> Int(42)]),
     Dict([insight |-> Dict([confidence |-> Float(87)]),
           agents_consulted |-> Int(42)]),
     Dict([insight |-> Dict([recommendation |-> Str(Recommendation),
                             confidence |-> Str(<<"high">>)]),
           agents_consulted |-> Int(42)]),
     Dict([insight |-> Dict([recommendation |-> Str(Recommendation),
                             confidence |-> Null]),
           agents_consulted |-> Int(42)]),
     Dict([insight |-> FullInsight, agents_consulted |-> Str(<<"many">>)]),
     Dict([insight |-> FullInsight, agents_consulted |-> Int(42),
           predictive_intelligence |-> Null]),
     Dict([insight |-> FullInsight, agents_consulted |-> Int(42),
           learning_exchange |-> Null])}

Response(status, body) == [k |-> "response", status |-> status, body |-> body]

ErrorStatuses == {401, 403, 500}

\* what requests.post raises
Failures ==
    {Raise("ReadTimeout", <<"Read", " ", "timed", " ", "out", ".">>),
     Raise("ConnectTimeout", <<"Connection", " ", "to", " ", "cellrepair.ai",
                               " ", "timed", " ", "out", ".">>),
     Raise("ConnectionError", <<"Connection", " ", "refused">>),
     Raise("ConnectionError", <<"[Errno 110]", " ", "Connection", " ", "timed",
                                " ", "out">>),
     Raise("SSLError", <<"certificate", " ", "verify", " ", "failed">>)}

Outcomes ==
    Failures
    \cup {Response(s, b) : s \in ErrorStatuses, b \in {None, Some(FullBody)}}
    \cup {Response(200, None)}
    \cup {Response(200, Some(b)) : b \in GoodBodies \cup BadBodies}

---------------------------------------------------------------------------
(* Invocations of the constructed tools *)

Call(tool, entry, self, query, context, net, r) ==
    /\ last' = Some([tool |-> tool, entry |-> entry, api_key |-> self.api_key,
                     query |-> query, context |-> context, net |-> net,
                     requests |-> r.requests, result |-> r.result])
    /\ invoked' = invoked + 1
    /\ calls' = calls + (IF Truthy(self.api_key) THEN 1 ELSE 0)
    /\ sent' = sent + Len(r.requests)
    /\ UNCHANGED <<environ, lenientTool, strictTool, ctorLenient, ctorStrict>>

AIToolRun ==
    /\ last = None
    /\ lenientTool # None
    /\ invoked < MaxCalls
    /\ \E query \in Queries, net \in Outcomes :
          Call("CellRepairAITool", "_run", lenientTool[1], query, None, net,
               CellRepairAITool_run(lenientTool[1], query, net))

AIToolArun ==
    /\ last = None
    /\ lenientTool # None
    /\ invoked < MaxCalls
    /\ \E query \in Queries, net \in Outcomes :
          Call("CellRepairAITool", "_arun", lenientTool[1], query, None, net,
               CellRepairAITool_arun(lenientTool[1], query, net))

ToolRun ==
    /\ last = None
    /\ strictTool # None
    /\ invoked < MaxCalls
    /\ \E query \in Queries, context \in Contexts, net \in Outcomes :
          Call("CellRepairTool", "_run", strictTool[1], query, context, net,
               CellRepairTool_run(strictTool[1], query, context, net))

\* the caller takes the returned string (or the exception): result = tool._run(...)
Deliver ==
    /\ last # None
    /\ last' = None
    /\ UNCHANGED <<environ, lenientTool, strictTool, ctorLenient, ctorStrict,
                   invoked, calls, sent>>

\* both tools constructed, from some arguments under some environment
Init ==
    \E env \in EnvValues, a1 \in ArgValues, a2 \in ArgValues :
        /\ ~CellRepairTool_init(a2, env).raised
        /\ environ = env
        /\ lenientTool = Some([api_key |-> CellRepairAITool_init(a1, env).api_key])
        /\ strictTool = Some([api_key |-> CellRepairTool_init(a2, env).api_key])
        /\ ctorLenient = None
        /\ ctorStrict = None
        /\ last = None
        /\ invoked = 0
        /\ calls = 0
        /\ sent = 0

Next == AIToolRun \/ AIToolArun \/ ToolRun \/ Deliver

Spec == Init /\ [][Next]_vars

---------------------------------------------------------------------------
(* Constructions *)

SetEnv ==
    /\ \E env \in EnvValues : environ' = env /\ env # environ
    /\ UNCHANGED <<lenientTool, strictTool, ctorLenient, ctorStrict,
                   last, invoked, calls, sent>>

ConstructAITool ==
    /\ \E arg \in ArgValues :
          LET r == CellRepairAITool_init(arg, environ)
          IN  /\ ctorLenient' = Some([arg |-> arg, env |-> environ,
                                      raised |-> r.raised, api_key |-> r.api_key,
                                      warned |-> r.warned])
              /\ lenientTool' = IF r.raised THEN lenientTool
                                ELSE Some([api_key |-> r.api_key])
    /\ UNCHANGED <<environ, strictTool, ctorStrict, last, invoked, calls, sent>>

ConstructTool ==
    /\ \E arg \in ArgValues :
          LET r == CellRepairTool_init(arg, environ)
          IN  /\ ctorStrict' = Some([arg |-> arg, env |-> environ,
                                     raised |-> r.raised, api_key |-> r.api_key,
                                     warned |-> r.warned])
              /\ strictTool' = IF r.raised THEN strictTool
                               ELSE Some([api_key |-> r.api_key])
    /\ UNCHANGED <<environ, lenientTool, ctorLenient, last, invoked, calls, sent>>

InitCtor ==
    /\ environ \in EnvValues
    /\ lenientTool = None
    /\ strictTool = None
    /\ ctorLenient = None
    /\ ctorStrict = None
    /\ last = None
    /\ invoked = 0
    /\ calls = 0
    /\ sent = 0

NextCtor == SetEnv \/ ConstructAITool \/ ConstructTool

SpecCtor == InitCtor /\ [][NextCtor]_vars

---------------------------------------------------------------------------
(* Vocabulary of the properties *)

\* the string is an error string
IsError(s) == StartsWith(s, <<"Error:", " ">>)

\* the string says where a key is obtained
MentionsKeyUrl(s) == Contains(s, KeyUrl) \/ Contains(s, KeyUrlUtm)

\* the failure kinds of an invocation that its inputs decide; "decoded" is a
\* 200 response whose body is JSON
Kind(c) ==
    IF ~Truthy(c.api_key) THEN "missing_credential"
    ELSE IF c.net.k = "raise"
         THEN IF IsTimeout(c.net.cls) THEN "timeout" ELSE "transport"
    ELSE IF c.net.status = 401 THEN "invalid_credential"
    ELSE IF c.net.status # 200 THEN "upstream"
    ELSE IF c.net.body = None THEN "transport"
    ELSE "decoded"

Failed(c) == Kind(c) # "decoded"

\* the same call of the same tool under another transport outcome
Rerun(c, net) ==
    IF c.tool = "CellRepairAITool"
    THEN CellRepairAITool_run([api_key |-> c.api_key], c.query, net)
    ELSE CellRepairTool_run([api_key |-> c.api_key], c.query, c.context, net)

\* s.split("\n")
SplitLines(s) ==
    LET breaks == SelectSeq([i \in 1..Len(s) |-> i], LAMBDA i : s[i] = "\n")
        cuts == <<0>> \o breaks \o <<Len(s) + 1>>
    IN  [k \in 1..(Len(breaks) + 1) |-> SubSeq(s, cuts[k] + 1, cuts[k + 1] - 1)]

IsFollowUpLine(l) == l # <<>> /\ Head(l) = "  "

\* the indented lines of the string, in order
FollowUpLines(s) == SelectSeq(SplitLines(s), IsFollowUpLine)

HasFollowUpSection(s) ==
    \/ Contains(s, <<"probably", " ", "ask", " ", "next">>)
    \/ Contains(s, <<"Predictive", " ", "Intelligence">>)
    \/ FollowUpLines(s) # <<>>

HasLearnSection(s) == Contains(s, <<"got", " ", "smarter">>)

\* the questions of a decoded body, <<>> when the field is absent
QuestionsOf(data) ==
    IF "predictive_intelligence" \in DOMAIN data.d
       /\ "you_will_probably_ask_next"
              \in DOMAIN data.d["predictive_intelligence"].d
    THEN data.d["predictive_intelligence"].d["you_will_probably_ask_next"].items
    ELSE <<>>

\* a 200 response whose body holds insight.recommendation, any other field
\* present and well typed, or absent
IsGood(c) ==
    /\ Truthy(c.api_key)
    /\ c.net.k = "response"
    /\ c.net.status = 200
    /\ c.net.body # None
    /\ c.net.body[1] \in GoodBodies

---------------------------------------------------------------------------
(* C1 *)

\* C1: an invocation of _run (either tool) never raises to the caller: for
\* every query, context and transport outcome it returns a string.
C1_NeverRaises ==
    last # None => /\ last[1].result.k = "return"
                   /\ last[1].result.v \in Seq(STRING)

\* C1 witness: requests.post raised a non-timeout exception, a request was
\* made, and the call returned.
C1_Witness ==
    /\ last # None
    /\ last[1].net.k = "raise"
    /\ ~IsTimeout(last[1].net.cls)
    /\ last[1].requests # <<>>
    /\ last[1].result.k = "return"

---------------------------------------------------------------------------
(* C2 *)

\* C2: an invocation with a non-empty key issues exactly one request whatever
\* the outcome; with an empty key it issues none and returns the
\* authentication-error string; so over any run the number of requests is the
\* number of invocations made with a non-empty key.
C2_OneRequestPerCall ==
    /\ sent = calls
    /\ last # None =>
          IF Truthy(last[1].api_key)
          THEN Len(last[1].requests) = 1
          ELSE /\ last[1].requests = <<>>
               /\ last[1].result.k = "return"
               /\ IsError(last[1].result.v)
               /\ Contains(last[1].result.v, <<"No", " ", "API", " ", "key">>)

\* C2 witness: two invocations, one with an empty key and one whose request
\* failed in the transport, and one request in all.
C2_Witness ==
    /\ invoked = 2
    /\ calls = 1
    /\ sent = 1
    /\ last # None
    /\ last[1].net.k = "raise"
    /\ Len(last[1].requests) = 1

---------------------------------------------------------------------------
(* C3 *)

\* the string is one of the two success strings
IsSuccess(s) == StartsWith(s, <<"CellRepair.AI", " ">>)

\* C3 as stated: every error result (missing credential, 401, other non-200
\* status, timeout, generic exception) begins with "Error: " and includes
\* where to obtain a key.
C3_ErrorsNameKeyUrl ==
    last # None /\ (Failed(last[1]) \/ ~IsSuccess(last[1].result.v)) =>
        /\ last[1].result.k = "return"
        /\ IsError(last[1].result.v)
        /\ MentionsKeyUrl(last[1].result.v)

\* C3 amended: every result that is not a success string, and the result of
\* every failure, begins with "Error: "; the results of a missing credential
\* and of a 401 also include where to obtain a key, those of another non-200
\* status and of a timeout do not.
C3_ErrorsPrefixed ==
    last # None /\ (Failed(last[1]) \/ ~IsSuccess(last[1].result.v)) =>
        /\ last[1].result.k = "return"
        /\ IsError(last[1].result.v)
        /\ Kind(last[1]) \in {"missing_credential", "invalid_credential"}
              => MentionsKeyUrl(last[1].result.v)
        /\ Kind(last[1]) \in {"upstream", "timeout"}
              => ~MentionsKeyUrl(last[1].result.v)

\* C3 witness: a 401 has been answered with an error string that names the
\* key URL.
C3_Witness ==
    /\ last # None
    /\ Kind(last[1]) = "invalid_credential"
    /\ IsError(last[1].result.v)
    /\ MentionsKeyUrl(last[1].result.v)

---------------------------------------------------------------------------
(* C4 *)

\* the four result classes of the claim: "other" is every outcome that is
\* neither a timeout nor a non-200 status
Class(net) ==
    IF net.k = "raise" THEN IF IsTimeout(net.cls) THEN "timeout" ELSE "other"
    ELSE IF net.status = 401 THEN "invalid_credential"
    ELSE IF net.status # 200 THEN "upstream"
    ELSE "other"

FailureOutcomes == {net \in Outcomes : net.k = "raise" \/ net.status # 200
                                       \/ net.body = None}

\* C4: a 401 yields a string with "Invalid" and "key" and not the status
\* message; any other status s # 200 yields a string with the literal s,
\* whatever the body; a timeout yields a string with "timed out"; any other
\* transport or decoding failure yields an "Error: " string; and outcomes of
\* two different classes never yield the same string.
C4_FailuresClassified ==
    last # None /\ Truthy(last[1].api_key) =>
        LET c == last[1]
            r == c.result.v
        IN  /\ c.result.k = "return"
            /\ Kind(c) = "invalid_credential" =>
                  /\ Contains(r, <<"Invalid">>)
                  /\ Contains(r, <<"key">>)
                  /\ ~Contains(r, <<"returned">>)
            /\ Kind(c) = "upstream" =>
                  /\ IsError(r)
                  /\ Contains(r, <<"returned">>)
                  /\ Contains(r, IntToStr(c.net.status))
                  /\ r = Rerun(c, Response(c.net.status, None)).result.v
            /\ Kind(c) = "timeout" => Contains(r, <<"timed", " ", "out">>)
            /\ Kind(c) = "transport" => IsError(r)
            /\ \A net \in FailureOutcomes :
                  Class(net) # Class(c.net) => Rerun(c, net).result.v # r

\* C4 witness: a 500 whose body is not JSON has been answered with the status
\* message.
C4_Witness ==
    /\ last # None
    /\ Truthy(last[1].api_key)
    /\ last[1].net.k = "response"
    /\ last[1].net.status = 500
    /\ last[1].net.body = None
    /\ Contains(last[1].result.v, IntToStr(500))

---------------------------------------------------------------------------
(* C5 *)

\* a key is given: the value is there and is not ""
Given(opt) == opt # None /\ Truthy(opt[1])

\* the claim's three cases for one constructor call
ResolvedAsClaimed(c, strict) ==
    /\ Given(c.arg) => ~c.raised /\ c.api_key = c.arg[1]
    /\ ~Given(c.arg) /\ Given(c.env) => ~c.raised /\ c.api_key = c.env[1]
    /\ ~Given(c.arg) /\ ~Given(c.env) =>
          IF strict THEN c.raised ELSE ~c.raised /\ c.api_key = EmptyStr

\* C5: a key passed explicitly wins over the environment's; with only the
\* environment's key, it is used; with neither, CellRepairTool fails
\* construction and CellRepairAITool is constructed with an empty key.
C5_CredentialResolution ==
    /\ ctorLenient # None => ResolvedAsClaimed(ctorLenient[1], FALSE)
    /\ ctorStrict # None => ResolvedAsClaimed(ctorStrict[1], TRUE)

-----
(* C6 *)

\* C6: for a 200 body with insight.recommendation, whichever other fields are
\* absent, either tool (asked a non-empty query) returns the success string, with the confidence and
\* agents lines rendered, and with no follow-up section and no
\* mutual-improvement line when their fields are absent.
C6_OptionalFieldsTolerated ==
    last # None /\ IsGood(last[1]) /\ last[1].query # EmptyQuery =>
        LET r == last[1].result.v
            data == last[1].net.body[1]
        IN  /\ last[1].result.k = "return"
            /\ ~IsError(r)
            /\ Contains(r, Recommendation)
            /\ Contains(r, <<"Confidence", ":", " ">>)
            /\ Contains(r, <<"Agents", " ">>)
            /\ "predictive_intelligence" \notin DOMAIN data.d
                  => ~HasFollowUpSection(r)
            /\ "learning_exchange" \notin DOMAIN data.d => ~HasLearnSection(r)

---------------------------------------------------------------------------
(* C7 *)

\* the line f"  {i}. {q}"
FollowUpLine(i, q) == <<"  ">> \o IntToStr(i) \o <<".", " ">> \o q.s

---------------------------------------------------------------------------
(* C8 *)

\* C8: _arun issues the requests and returns the string that _run does for
\* the same tool, query and transport outcome.
C8_ArunIsRun ==
    last # None /\ last[1].entry = "_arun" =>
        LET sync == CellRepairAITool_run([api_key |-> last[1].api_key],
                                         last[1].query, last[1].net)
        IN  /\ last[1].requests = sync.requests
            /\ last[1].result = sync.result

\* C8 witness: _arun has issued a request and returned a success string.
C8_Witness ==
    /\ last # None
    /\ last[1].entry = "_arun"
    /\ Len(last[1].requests) = 1
    /\ last[1].result.k = "return"
    /\ ~IsError(last[1].result.v)

---------------------------------------------------------------------------
(* C9 *)

\* C9: an invocation with the empty query either issues no request, or
\* returns an error string that is the same for every transport outcome.
C9_EmptyQueryRejected ==
    last # None /\ last[1].query = EmptyQuery =>
        \/ last[1].requests = <<>>
        \/ /\ last[1].result.k = "return"
           /\ IsError(last[1].result.v)
           /\ \A net \in Outcomes : Rerun(last[1], net).result = last[1].result

---------------------------------------------------------------------------
(* C10 *)

\* C10: constructed from the same argument under the same environment,
\* CellRepairTool fails exactly when CellRepairAITool resolves an empty key,
\* and when it succeeds both hold the same key.
C10_SameResolution ==
    /\ ctorLenient # None
    /\ ctorStrict # None
    /\ ctorLenient[1].arg = ctorStrict[1].arg
    /\ ctorLenient[1].env = ctorStrict[1].env
    => /\ ctorStrict[1].raised = (ctorLenient[1].api_key = EmptyStr)
       /\ ~ctorStrict[1].raised =>
             ctorStrict[1].api_key = ctorLenient[1].api_key

====
